---- MODULE Spec2Model ----
(***************************************************************************)
(* Model of the per-server power-action controller of Wings:               *)
(*   Server.HandlePowerAction, Server.onBeforeStart and                    *)
(*   Server.ExecutingPowerAction (server/power.go).                        *)
(*                                                                         *)
(* One Server object is followed.  Each task of Tasks is a goroutine that  *)
(* runs one HandlePowerAction call at a time; pc[c] is the source line the *)
(* call is about to execute.  s.powerLock is a plain pointer field that is *)
(* read and written without synchronisation, so every read and every write *)
(* of it is a step of its own.                                             *)
(***************************************************************************)
EXTENDS Integers, Sequences, FiniteSets, TLC

\* ---------------------------------------------------------------- bounds
\* Number of goroutines that may be inside HandlePowerAction at once.
NumTasks == 2

Tasks == 1..NumTasks

\* Number of remote downloads that may be pending for the server.
MaxDownloads == 2

\* One more goroutine, whose call is followed in detail: every collaborator call
\* it makes is recorded (log).  It runs the same code as the tasks.
Observed == NumTasks + 1

Callers == Tasks \cup {Observed}

\* ------------------------------------------------------------- constants
PowerActionStart == "start"
PowerActionStop == "stop"
PowerActionRestart == "restart"
PowerActionTerminate == "kill"

\* A PowerAction is any string; "bogus" stands for every value IsValid rejects.
PowerActions ==
  {PowerActionStart, PowerActionStop, PowerActionRestart, PowerActionTerminate, "bogus"}

\* The wait bound the callers in the repository pass (seconds).
LockWaitSeconds == 30

\* The variadic waitSeconds argument: absent, zero, or positive.
WaitInputs == {<< >>, <<0>>, <<LockWaitSeconds>>}

ProcessOfflineState == "offline"
ProcessStates == {ProcessOfflineState, "starting", "running", "stopping"}

\* Values s.DiskSpace() may return: unlimited (negative or zero) or limited.
DiskLimits == {-1, 0, 1}

\* ---------------------------------------------------------------- errors
\* An error is the chain of its messages, outermost first; nil is << >>.
Nil == << >>
ErrServerIsInstalling == <<"ErrServerIsInstalling">>
ErrServerIsTransferring == <<"ErrServerIsTransferring">>
ErrServerIsRestoring == <<"ErrServerIsRestoring">>
ErrIsRunning == <<"ErrIsRunning">>
ErrSuspended == <<"ErrSuspended">>
DeadlineExceeded == <<"context.DeadlineExceeded">>
ErrUnknownAction == <<"attempting to handle unknown power action">>
\* Release on a semaphore that holds nothing panics.
PanicReleased == <<"panic: semaphore: released more than held">>

\* errors.WithMessage(err, msg)
WithMessage(err, msg) == <<msg>> \o err

\* errors.Is(err, target) for the chains above: target is a tail of err.
ErrorsIs(err, target) ==
  /\ Len(err) >= Len(target)
  /\ SubSeq(err, Len(err) - Len(target) + 1, Len(err)) = target

ErrLockTimeout == WithMessage(DeadlineExceeded, "could not acquire lock on power state")

\* Errors the collaborators may return (inputs of the model).
SyncErrors == {<<"panel: sync failed">>}
DiskErrors == {<<"filesystem: not enough disk space">>}
ChownErrors == {<<"filesystem: chown failed">>}
StartErrors == {<<"environment: start failed">>}
StopErrors == {<<"environment: stop wait deadline exceeded">>,
               <<"environment: forced kill failed">>}
TerminateErrors == {<<"environment: terminate failed">>}
DestroyErrors == {<<"environment: destroy failed">>}

\* ----------------------------------------------------------------- state
NoLock == 0
\* A semaphore created by caller c (semaphore.NewWeighted(1)) is named c.
Locks == Callers

VARIABLES
  installing, transferring, restoring,  \* Server flags read by the gate
  suspended,                            \* Server.Config().Suspended
  powerLock,                            \* s.powerLock: NoLock (nil) or a lock
  cur,                                  \* cur[l]: weight held of semaphore l
  created,                              \* semaphores NewWeighted has returned
  pc,                                   \* pc[c]: position of task c's call
  action, waitSeconds,                  \* arguments of task c's call
  lk,                                   \* receiver read for Acquire/TryAcquire
  acq,                                  \* semaphore the call acquired, or NoLock
  rel,                                  \* receiver of the deferred Release
  expired,                              \* ctx of the timed Acquire is done
  invoked,                              \* backend operations the call has invoked
  log,                                  \* collaborator calls the observed call made
  result,                               \* error returned by the call
  ppc, plk, pres,                       \* ExecutingPowerAction probe
  pseen,                                \* calls holding the lock since the probe began
  origin,                               \* origin[c]: who made task c's call
  late,                                 \* late[c]: it began after deleteServer suspended
  status,                               \* answer to the last power request
  recalc,                               \* disk-usage recalculation in flight
  dpc,                                  \* position of the deleteServer request
  teardown,                             \* teardown steps deleteServer has issued
  pending,                              \* downloads deleteServer has yet to cancel
  registered,                           \* the manager still holds the server
  removal,                              \* the detached os.RemoveAll task
  dres                                  \* answer of the deleteServer request

vars == <<installing, transferring, restoring, suspended, powerLock, cur, created,
          pc, action, waitSeconds, lk, acq, rel, expired, invoked, log, result,
          ppc, plk, pres, pseen, origin, late, status, recalc,
          dpc, teardown, pending, registered, removal, dres>>

serverVars == <<installing, transferring, restoring, suspended>>
lockVars == <<powerLock, cur, created>>
callVars == <<pc, action, waitSeconds, lk, acq, rel, expired, invoked, log, result>>
probeVars == <<ppc, plk, pres, pseen>>
deleteVars == <<dpc, teardown, pending, registered, removal, dres>>

Entry(op, ret) == [op |-> op, ret |-> ret]

Init ==
  /\ installing = FALSE
  /\ transferring = FALSE
  /\ restoring = FALSE
  /\ suspended = FALSE
  /\ powerLock = NoLock
  /\ cur = [l \in Locks |-> 0]
  /\ created = {}
  /\ pc = [c \in Callers |-> "idle"]
  /\ action = [c \in Callers |-> PowerActionStop]
  /\ waitSeconds = [c \in Callers |-> << >>]
  /\ lk = [c \in Callers |-> NoLock]
  /\ acq = [c \in Callers |-> NoLock]
  /\ rel = [c \in Callers |-> NoLock]
  /\ expired = [c \in Callers |-> FALSE]
  /\ invoked = [c \in Callers |-> {}]
  /\ log = << >>
  /\ result = [c \in Callers |-> Nil]
  /\ ppc = "idle"
  /\ plk = NoLock
  /\ pres = FALSE
  /\ pseen = {}
  /\ origin = [c \in Callers |-> "direct"]
  /\ late = [c \in Callers |-> FALSE]
  /\ status = "none"
  /\ recalc = "idle"
  /\ dpc = "idle"
  /\ teardown = << >>
  /\ pending = 0
  /\ registered = TRUE
  /\ removal = "none"
  /\ dres = [code |-> "none", err |-> Nil]


\* ------------------------------------------------- semaphore.Weighted(1)
\* With capacity 1 and weight 1 a waiter exists only while the semaphore is
\* held (Release hands it to the first waiter under the semaphore's mutex), so
\* TryAcquire succeeds exactly when nothing is held.
SemFree(l) == cur[l] = 0
SemTake(l) == [cur EXCEPT ![l] = 1]
SemGive(l) == [cur EXCEPT ![l] = 0]

\* ------------------------------------------------- PowerAction predicates
IsValid(pa) ==
  \/ pa = PowerActionStart
  \/ pa = PowerActionStop
  \/ pa = PowerActionTerminate
  \/ pa = PowerActionRestart

IsStart(pa) == pa = PowerActionStart \/ pa = PowerActionRestart

\* ------------------------------------------------------ HandlePowerAction
\* A returned call takes no further part: its goroutine ends before any other
\* step is taken (Finish and ProbeFinish touch nothing another step reads).
Returned == ppc = "done" \/ \E c \in Callers : pc[c] = "done"

\* Task c is about to execute the line named label.
At(c, label) == ~Returned /\ pc[c] = label

ProbeAt(label) == ~Returned /\ ppc = label

\* A goroutine calls s.HandlePowerAction(a, ws...).  The variadic argument is
\* drawn where the call first looks at it (ReadLock).
Call(c, actions) ==
  /\ At(c, "idle")
  /\ \E a \in actions : action' = [action EXCEPT ![c] = a]
  /\ pc' = [pc EXCEPT ![c] = "chkInstalling"]
  /\ origin' = [origin EXCEPT ![c] = "direct"]
  /\ late' = [late EXCEPT ![c] = teardown # << >>]
  /\ UNCHANGED <<serverVars, lockVars, probeVars,
                 waitSeconds, lk, acq, rel, expired, invoked, log, result>>
  /\ UNCHANGED <<deleteVars, status, recalc>>

\* A call with any PowerAction.
Begin(c) == Call(c, PowerActions)

\* A call that stops or kills the server.
BeginStop(c) == Call(c, {PowerActionStop, PowerActionTerminate})

\* The goroutine of a returned call ends and its frame is gone.
Finish(c) ==
  /\ pc[c] = "done"
  /\ pc' = [pc EXCEPT ![c] = "idle"]
  /\ action' = [action EXCEPT ![c] = PowerActionStop]
  /\ waitSeconds' = [waitSeconds EXCEPT ![c] = << >>]
  /\ lk' = [lk EXCEPT ![c] = NoLock]
  /\ acq' = [acq EXCEPT ![c] = NoLock]
  /\ rel' = [rel EXCEPT ![c] = NoLock]
  /\ expired' = [expired EXCEPT ![c] = FALSE]
  /\ invoked' = [invoked EXCEPT ![c] = {}]
  /\ log' = IF c = Observed THEN << >> ELSE log
  /\ result' = [result EXCEPT ![c] = Nil]
  /\ pseen' = pseen \ {c}
  /\ UNCHANGED <<serverVars, lockVars, ppc, plk, pres>>
  /\ UNCHANGED <<deleteVars, origin, late, status, recalc>>

\* `return err`: the deferred Release, if one was registered, runs next.
Return(c, err) ==
  /\ result' = [result EXCEPT ![c] = err]
  /\ pc' = [pc EXCEPT ![c] = IF rel[c] = NoLock THEN "done" ELSE "release"]

Goto(c, label) == pc' = [pc EXCEPT ![c] = label]

\* The observed call's collaborator calls are appended to the log.
Record(c, calls) == log' = IF c = Observed THEN log \o calls ELSE log

\* Call c invokes the backend operation op (onBeforeStart or a method of
\* s.Environment), which returns ret.
Invoke(c, op, ret) ==
  /\ invoked' = [invoked EXCEPT ![c] = @ \cup {op}]
  /\ Record(c, <<Entry(op, ret)>>)

\* A gate that lets an installing server through.
GateInstallingOpen(c) == Nil

\* The three gates, in source order; the error each one returns.
GateInstalling(c) == IF installing THEN ErrServerIsInstalling ELSE Nil
GateTransferring(c) == IF transferring THEN ErrServerIsTransferring ELSE Nil
GateRestoring(c) == IF restoring THEN ErrServerIsRestoring ELSE Nil

\* if s.IsInstalling() { return ErrServerIsInstalling }
CheckInstalling(c) ==
  /\ At(c, "chkInstalling")
  /\ IF GateInstalling(c) # Nil
       THEN Return(c, GateInstalling(c))
       ELSE Goto(c, "chkTransferring") /\ UNCHANGED result
  /\ UNCHANGED <<serverVars, lockVars, probeVars,
                 action, waitSeconds, lk, acq, rel, expired, invoked, log>>
  /\ UNCHANGED <<deleteVars, origin, late, status, recalc>>

\* if s.IsTransferring() { return ErrServerIsTransferring }
CheckTransferring(c) ==
  /\ At(c, "chkTransferring")
  /\ IF GateTransferring(c) # Nil
       THEN Return(c, GateTransferring(c))
       ELSE Goto(c, "chkRestoring") /\ UNCHANGED result
  /\ UNCHANGED <<serverVars, lockVars, probeVars,
                 action, waitSeconds, lk, acq, rel, expired, invoked, log>>
  /\ UNCHANGED <<deleteVars, origin, late, status, recalc>>

\* if s.IsRestoring() { return ErrServerIsRestoring }
CheckRestoring(c) ==
  /\ At(c, "chkRestoring")
  /\ IF GateRestoring(c) # Nil
       THEN Return(c, GateRestoring(c))
       ELSE Goto(c, "chkLock") /\ UNCHANGED result
  /\ UNCHANGED <<serverVars, lockVars, probeVars,
                 action, waitSeconds, lk, acq, rel, expired, invoked, log>>
  /\ UNCHANGED <<deleteVars, origin, late, status, recalc>>

\* if s.powerLock == nil {            (the read of the unsynchronised field)
CheckLock(c) ==
  /\ At(c, "chkLock")
  /\ Goto(c, IF powerLock = NoLock THEN "newLock" ELSE "readLock")
  /\ UNCHANGED <<serverVars, lockVars, probeVars,
                 action, waitSeconds, lk, acq, rel, expired, invoked, log, result>>
  /\ UNCHANGED <<deleteVars, origin, late, status, recalc>>

\*     s.powerLock = semaphore.NewWeighted(1)          (the write of it)
NewLock(c) ==
  /\ At(c, "newLock")
  /\ powerLock' = c
  /\ created' = created \cup {c}
  /\ cur' = [cur EXCEPT ![c] = 0]
  /\ Goto(c, "readLock")
  /\ UNCHANGED <<serverVars, probeVars,
                 action, waitSeconds, lk, acq, rel, expired, invoked, log, result>>
  /\ UNCHANGED <<deleteVars, origin, late, status, recalc>>

\* A HandlePowerAction that took the lock path for every action.
NeedsLockForEveryAction(a) == TRUE

\* if action != PowerActionTerminate
NeedsLock(a) == a # PowerActionTerminate

\* A wait test that forgot the zero bound: len(waitSeconds) > 0.
ShouldWaitForAnyBound(ws) == Len(ws) > 0

\* if len(waitSeconds) > 0 && waitSeconds[0] != 0
ShouldWait(ws) == Len(ws) > 0 /\ ws[1] # 0

\* The wait bounds a caller passes: postServerPower passes 30, any other
\* caller of HandlePowerAction passes what it likes.
WaitBounds(from) ==
  IF from = "power" THEN {<<LockWaitSeconds>>} ELSE WaitInputs

\* The lock step is chosen (lines 87 and 90) and the receiver s.powerLock of
\* Acquire / TryAcquire is evaluated.
ReadLock(c) ==
  /\ At(c, "readLock")
  /\ \E ws \in WaitBounds(origin[c]) :
       /\ waitSeconds' = [waitSeconds EXCEPT ![c] = ws]
       /\ Goto(c, IF NeedsLock(action[c]) /\ ShouldWait(ws)
                    THEN "acquire" ELSE "tryAcquire")
  /\ lk' = [lk EXCEPT ![c] = powerLock]
  /\ UNCHANGED <<serverVars, lockVars, probeVars,
                 action, acq, rel, expired, invoked, log, result>>
  /\ UNCHANGED <<deleteVars, origin, late, status, recalc>>

\* s.powerLock.Acquire(ctx, 1) is entered: the semaphore is taken at once when
\* it is free, otherwise the call blocks on ctx.Done() and the semaphore.
Acquire(c) ==
  /\ At(c, "acquire")
  /\ IF SemFree(lk[c])
       THEN /\ cur' = SemTake(lk[c])
            /\ acq' = [acq EXCEPT ![c] = lk[c]]
            /\ Goto(c, "deferRelease")
       ELSE /\ Goto(c, "waiting")
            /\ UNCHANGED <<cur, acq>>
  /\ UNCHANGED <<serverVars, powerLock, created, probeVars,
                 action, waitSeconds, lk, rel, expired, invoked, log, result>>
  /\ UNCHANGED <<deleteVars, origin, late, status, recalc>>

\* The deadline of context.WithTimeout(.., waitSeconds[0] seconds) passes
\* while the call is blocked in Acquire.
DeadlineElapses(c) ==
  /\ At(c, "waiting")
  /\ ~expired[c]
  /\ expired' = [expired EXCEPT ![c] = TRUE]
  /\ UNCHANGED <<serverVars, lockVars, probeVars,
                 pc, action, waitSeconds, lk, acq, rel, invoked, log, result>>
  /\ UNCHANGED <<deleteVars, origin, late, status, recalc>>

\* The blocked Acquire is handed the semaphore and returns nil.
AcquireGranted(c) ==
  /\ At(c, "waiting")
  /\ SemFree(lk[c])
  /\ cur' = SemTake(lk[c])
  /\ acq' = [acq EXCEPT ![c] = lk[c]]
  /\ Goto(c, "deferRelease")
  /\ UNCHANGED <<serverVars, powerLock, created, probeVars,
                 action, waitSeconds, lk, rel, expired, invoked, log, result>>
  /\ UNCHANGED <<deleteVars, origin, late, status, recalc>>

\* A lock error that drops the cause: errors.New("could not acquire lock ...").
AcquireFailureWithoutCause(err) == <<"could not acquire lock on power state">>

\* What HandlePowerAction returns when Acquire returns err (ctx.Err()).
AcquireFailure(err) == WithMessage(err, "could not acquire lock on power state")

\* The blocked Acquire sees ctx.Done() and returns ctx.Err();
\* `return errors.WithMessage(err, "could not acquire lock on power state")`.
AcquireTimeout(c) ==
  /\ At(c, "waiting")
  /\ expired[c]
  /\ Return(c, AcquireFailure(DeadlineExceeded))
  /\ UNCHANGED <<serverVars, lockVars, probeVars,
                 action, waitSeconds, lk, acq, rel, expired, invoked, log>>
  /\ UNCHANGED <<deleteVars, origin, late, status, recalc>>

\* What a failed TryAcquire leads to: the lock error for the exclusive actions,
\* nothing (Nil) for PowerActionTerminate, which goes on without the lock.
TryAcquireFailure(a) ==
  IF NeedsLock(a)
    THEN WithMessage(DeadlineExceeded, "could not acquire lock on power state")
    ELSE Nil

\* if ok := s.powerLock.TryAcquire(1); !ok { return ... }      (both branches)
TryAcquire(c) ==
  /\ At(c, "tryAcquire")
  /\ IF SemFree(lk[c])
       THEN /\ cur' = SemTake(lk[c])
            /\ acq' = [acq EXCEPT ![c] = lk[c]]
            /\ Goto(c, "deferRelease")
            /\ UNCHANGED result
       ELSE /\ IF TryAcquireFailure(action[c]) # Nil
                 THEN Return(c, TryAcquireFailure(action[c]))
                 ELSE Goto(c, "dispatch") /\ UNCHANGED result
            /\ UNCHANGED <<cur, acq>>
  /\ UNCHANGED <<serverVars, powerLock, created, probeVars,
                 action, waitSeconds, lk, rel, expired, invoked, log>>
  /\ UNCHANGED <<deleteVars, origin, late, status, recalc>>

\* defer s.powerLock.Release(1): the receiver is evaluated now, the call is
\* made when HandlePowerAction returns.
DeferRelease(c) ==
  /\ At(c, "deferRelease")
  /\ rel' = [rel EXCEPT ![c] = powerLock]
  /\ Goto(c, "dispatch")
  /\ UNCHANGED <<serverVars, lockVars, probeVars,
                 action, waitSeconds, lk, acq, expired, invoked, log, result>>
  /\ UNCHANGED <<deleteVars, origin, late, status, recalc>>


\* A HandlePowerAction that reads the Installing flag once more after the
\* lock step.
DispatchRecheckingGates(c) ==
  /\ At(c, "dispatch")
  /\ IF GateInstalling(c) # Nil
       THEN Return(c, GateInstalling(c))
       ELSE CASE action[c] = PowerActionStart -> Goto(c, "state") /\ UNCHANGED result
              [] action[c] = PowerActionStop -> Goto(c, "waitForStop") /\ UNCHANGED result
              [] action[c] = PowerActionRestart -> Goto(c, "waitForStop") /\ UNCHANGED result
              [] action[c] = PowerActionTerminate -> Goto(c, "terminate") /\ UNCHANGED result
              [] OTHER -> Return(c, ErrUnknownAction)
  /\ UNCHANGED <<serverVars, lockVars, probeVars,
                 action, waitSeconds, lk, acq, rel, expired, invoked, log>>
  /\ UNCHANGED <<deleteVars, origin, late, status, recalc>>

\* switch action { ... }; return errors.New("attempting to handle unknown power action")
Dispatch(c) ==
  /\ At(c, "dispatch")
  /\ CASE action[c] = PowerActionStart -> Goto(c, "state") /\ UNCHANGED result
       [] action[c] = PowerActionStop -> Goto(c, "waitForStop") /\ UNCHANGED result
       [] action[c] = PowerActionRestart -> Goto(c, "waitForStop") /\ UNCHANGED result
       [] action[c] = PowerActionTerminate -> Goto(c, "terminate") /\ UNCHANGED result
       [] OTHER -> Return(c, ErrUnknownAction)
  /\ UNCHANGED <<serverVars, lockVars, probeVars,
                 action, waitSeconds, lk, acq, rel, expired, invoked, log>>
  /\ UNCHANGED <<deleteVars, origin, late, status, recalc>>

\* A state check that only rejects a running server.
NotOfflineOnlyRunning(st) == st = "running"

\* s.Environment.State() != environment.ProcessOfflineState
NotOffline(st) == st # ProcessOfflineState

\* case PowerActionStart: if s.Environment.State() != offline { return ErrIsRunning }
CheckState(c) ==
  /\ At(c, "state")
  /\ \E st \in ProcessStates :
       /\ Invoke(c, "State", <<st>>)
       /\ IF NotOffline(st)
            THEN Return(c, ErrIsRunning)
            ELSE Goto(c, "sync") /\ UNCHANGED result
  /\ UNCHANGED <<serverVars, lockVars, probeVars,
                 action, waitSeconds, lk, acq, rel, expired>>
  /\ UNCHANGED <<deleteVars, origin, late, status, recalc>>

\* A restart that starts the server whatever the stop-wait returned.
RestartAfterStopIgnored(err) == Nil

\* What the stop-wait of a restart leads to: the error to return, or Nil to go
\* on to the pre-boot logic.
RestartAfterStop(err) == err

\* case PowerActionStop:    return s.Environment.WaitForStop(10*60, true)
\* case PowerActionRestart: if err := s.Environment.WaitForStop(10*60, true); err != nil { return err }
WaitForStop(c) ==
  /\ At(c, "waitForStop")
  /\ \E err \in {Nil} \cup StopErrors :
       /\ Invoke(c, "WaitForStop", err)
       /\ IF action[c] = PowerActionStop
            THEN Return(c, err)
            ELSE IF RestartAfterStop(err) # Nil
                   THEN Return(c, RestartAfterStop(err))
                   ELSE Goto(c, "sync") /\ UNCHANGED result
  /\ UNCHANGED <<serverVars, lockVars, probeVars,
                 action, waitSeconds, lk, acq, rel, expired>>
  /\ UNCHANGED <<deleteVars, origin, late, status, recalc>>

\* case PowerActionTerminate: return s.Environment.Terminate(os.Kill)
Terminate(c) ==
  /\ At(c, "terminate")
  /\ \E err \in {Nil} \cup TerminateErrors :
       /\ Invoke(c, "Terminate", err)
       /\ Return(c, err)
  /\ UNCHANGED <<serverVars, lockVars, probeVars,
                 action, waitSeconds, lk, acq, rel, expired>>
  /\ UNCHANGED <<deleteVars, origin, late, status, recalc>>

\* return s.Environment.Start()
EnvironmentStart(c) ==
  /\ At(c, "start")
  /\ \E err \in {Nil} \cup StartErrors :
       /\ Invoke(c, "Start", err)
       /\ Return(c, err)
  /\ UNCHANGED <<serverVars, lockVars, probeVars,
                 action, waitSeconds, lk, acq, rel, expired>>
  /\ UNCHANGED <<deleteVars, origin, late, status, recalc>>

\* The deferred s.powerLock.Release(1) runs as HandlePowerAction returns; a
\* Release of a semaphore that holds nothing panics.
Release(c) ==
  /\ At(c, "release")
  /\ IF cur[rel[c]] > 0
       THEN cur' = SemGive(rel[c]) /\ UNCHANGED result
       ELSE result' = [result EXCEPT ![c] = PanicReleased] /\ UNCHANGED cur
  /\ Goto(c, "done")
  /\ UNCHANGED <<serverVars, powerLock, created, probeVars,
                 action, waitSeconds, lk, acq, rel, expired, invoked, log>>
  /\ UNCHANGED <<deleteVars, origin, late, status, recalc>>

\* ---------------------------------------------------------- onBeforeStart
\* What a failed s.Sync() makes onBeforeStart return.
SyncFailure(err) == WithMessage(err, "unable to sync server data from Panel instance")

\* if err := s.Sync(); err != nil { return errors.WithMessage(err, ...) }
\* A successful Sync installs the Panel's definition of the server, the
\* suspended flag included.
Sync(c) ==
  /\ At(c, "sync")
  /\ invoked' = [invoked EXCEPT ![c] = @ \cup {"onBeforeStart"}]
  /\ \/ \E err \in SyncErrors :
          /\ Record(c, <<Entry("Sync", err)>>)
          /\ Return(c, SyncFailure(err))
          /\ UNCHANGED suspended
     \/ \E panelSuspended \in BOOLEAN :
          /\ Record(c, <<Entry("Sync", Nil)>>)
          /\ suspended' = panelSuspended
          /\ Goto(c, "preBoot")
          /\ UNCHANGED result
  /\ UNCHANGED <<installing, transferring, restoring, lockVars, probeVars,
                 action, waitSeconds, lk, acq, rel, expired>>
  /\ UNCHANGED <<deleteVars, origin, late, status, recalc>>

\* A suspended check that lets a suspended server boot.
SuspendedCheckOff(flag) == Nil

\* if s.IsSuspended() { return ErrSuspended }
SuspendedCheck(flag) == IF flag THEN ErrSuspended ELSE Nil

\* A limit test that takes only a negative limit for unlimited: s.DiskSpace() < 0.
UnlimitedNegativeOnly(limit) == limit < 0

\* if s.DiskSpace() <= 0
Unlimited(limit) == limit <= 0

\* An onBeforeStart that aborts when the configuration update failed.
ConfigFailureAborts(failed) ==
  IF failed THEN <<"failed to update configuration files">> ELSE Nil

\* What onBeforeStart does with the outcome of UpdateConfigurationFiles: it
\* has no error to look at (failures are logged inside), so it goes on.
ConfigFailure(failed) == Nil

\* What a failed Chown makes onBeforeStart return.
ChownFailure(err) ==
  WithMessage(err, "failed to chown root server directory during pre-boot process")

\* The steps of onBeforeStart after Sync, as the sequence of collaborator calls
\* made and the error returned, for given answers of the collaborators:
\*   if s.IsSuspended() { return ErrSuspended }
\*   s.SyncWithEnvironment()
\*   if s.DiskSpace() <= 0 { s.Filesystem().HasSpaceAvailable(true) }
\*   else if err := s.Filesystem().HasSpaceErr(false); err != nil { return err }
\*   s.UpdateConfigurationFiles()
\*   if config.Get().System.CheckPermissionsOnBoot {
\*     if err := s.Filesystem().Chown("/"); err != nil { return errors.WithMessage(..) } }
\*   return nil
PreBootRun(isSuspended, limit, spaceErr, configFailed, checkPermissionsOnBoot, chownErr) ==
  LET s1 == <<Entry("IsSuspended", <<isSuspended>>)>>
      s2 == s1 \o <<Entry("SyncWithEnvironment", Nil), Entry("DiskSpace", <<limit>>)>>
      s3 == s2 \o (IF Unlimited(limit)
                     THEN <<Entry("HasSpaceAvailable", Nil)>>
                     ELSE <<Entry("HasSpaceErr", spaceErr)>>)
      s4 == s3 \o <<Entry("UpdateConfigurationFiles",
                          IF configFailed THEN <<"failed">> ELSE Nil)>>
      s5 == s4 \o <<Entry("CheckPermissionsOnBoot", <<checkPermissionsOnBoot>>)>>
               \o (IF checkPermissionsOnBoot
                     THEN <<Entry("Chown", chownErr)>>
                     ELSE << >>)
  IN  IF SuspendedCheck(isSuspended) # Nil
        THEN [calls |-> s1, err |-> SuspendedCheck(isSuspended)]
      ELSE IF ~Unlimited(limit) /\ spaceErr # Nil
        THEN [calls |-> s3, err |-> spaceErr]
      ELSE IF ConfigFailure(configFailed) # Nil
        THEN [calls |-> s4, err |-> ConfigFailure(configFailed)]
      ELSE IF checkPermissionsOnBoot /\ chownErr # Nil
        THEN [calls |-> s5, err |-> ChownFailure(chownErr)]
      ELSE [calls |-> s5, err |-> Nil]

\* s.Filesystem().HasSpaceAvailable(true) accepts a stale value: it kicks off
\* the recalculation of the disk usage as a task of its own and returns.  The
\* recalculation kicked off by the observed call is followed (recalc).
Recalculates(calls) ==
  \E i \in 1..Len(calls) : calls[i].op = "HasSpaceAvailable"

\* The recalculation of the disk usage ends.
RecalcFinish ==
  /\ ~Returned
  /\ recalc = "running"
  /\ recalc' = "idle"
  /\ UNCHANGED <<serverVars, lockVars, callVars, probeVars,
                 deleteVars, origin, late, status>>

\* onBeforeStart after Sync; `if err := s.onBeforeStart(); err != nil { return err }`.
\* The disk limit, the answers of the filesystem and the configuration flag
\* are inputs.
PreBoot(c) ==
  /\ At(c, "preBoot")
  /\ \E limit \in DiskLimits, spaceErr \in {Nil} \cup DiskErrors,
        configFailed \in BOOLEAN, checkPermissionsOnBoot \in BOOLEAN,
        chownErr \in {Nil} \cup ChownErrors :
       LET run == PreBootRun(suspended, limit, spaceErr, configFailed,
                             checkPermissionsOnBoot, chownErr)
       IN  /\ Record(c, run.calls)
           /\ recalc' = IF c = Observed /\ Recalculates(run.calls)
                           THEN "running" ELSE recalc
           /\ IF run.err # Nil
                THEN Return(c, run.err)
                ELSE Goto(c, "start") /\ UNCHANGED result
  /\ UNCHANGED <<serverVars, lockVars, probeVars,
                 action, waitSeconds, lk, acq, rel, expired, invoked>>
  /\ UNCHANGED <<deleteVars, origin, late, status>>

\* --------------------------------------------------- ExecutingPowerAction
\* Another goroutine calls s.ExecutingPowerAction().
ProbeBegin ==
  /\ ProbeAt("idle")
  /\ ppc' = "chk"
  /\ pseen' = {c \in Callers : /\ action[c] # PowerActionTerminate
                                /\ acq[c] # NoLock
                                /\ pc[c] \notin {"idle", "done"}}
  /\ UNCHANGED <<serverVars, lockVars, callVars, plk, pres>>
  /\ UNCHANGED <<deleteVars, origin, late, status, recalc>>

\* if s.powerLock == nil { return false }
ProbeCheck ==
  /\ ProbeAt("chk")
  /\ IF powerLock = NoLock
       THEN ppc' = "done" /\ pres' = FALSE
       ELSE ppc' = "readTry" /\ UNCHANGED pres
  /\ UNCHANGED <<serverVars, lockVars, callVars, plk, pseen>>
  /\ UNCHANGED <<deleteVars, origin, late, status, recalc>>

\* The receiver s.powerLock of TryAcquire is evaluated.
ProbeReadTry ==
  /\ ProbeAt("readTry")
  /\ plk' = powerLock
  /\ ppc' = "try"
  /\ UNCHANGED <<serverVars, lockVars, callVars, pres, pseen>>
  /\ UNCHANGED <<deleteVars, origin, late, status, recalc>>

\* ok := s.powerLock.TryAcquire(1); ... return !ok
ProbeTry ==
  /\ ProbeAt("try")
  /\ IF SemFree(plk)
       THEN cur' = SemTake(plk) /\ ppc' = "readRelease" /\ UNCHANGED pres
       ELSE ppc' = "done" /\ pres' = TRUE /\ UNCHANGED cur
  /\ UNCHANGED <<serverVars, powerLock, created, callVars, plk, pseen>>
  /\ UNCHANGED <<deleteVars, origin, late, status, recalc>>

\* The receiver s.powerLock of Release is evaluated.
ProbeReadRelease ==
  /\ ProbeAt("readRelease")
  /\ plk' = powerLock
  /\ ppc' = "release"
  /\ UNCHANGED <<serverVars, lockVars, callVars, pres, pseen>>
  /\ UNCHANGED <<deleteVars, origin, late, status, recalc>>

\* if ok { s.powerLock.Release(1) }; return !ok
ProbeRelease ==
  /\ ProbeAt("release")
  /\ IF cur[plk] > 0
       THEN cur' = SemGive(plk) /\ ppc' = "done" /\ pres' = FALSE
       ELSE ppc' = "panicked" /\ UNCHANGED <<cur, pres>>
  /\ UNCHANGED <<serverVars, powerLock, created, callVars, plk, pseen>>
  /\ UNCHANGED <<deleteVars, origin, late, status, recalc>>

\* The probing goroutine goes on with the value returned.
ProbeFinish ==
  /\ ppc = "done"
  /\ ppc' = "idle"
  /\ plk' = NoLock
  /\ pres' = FALSE
  /\ pseen' = {}
  /\ UNCHANGED <<serverVars, lockVars, callVars>>
  /\ UNCHANGED <<deleteVars, origin, late, status, recalc>>

\* ------------------------------------------------------------ environment
\* The installer, the transfer and the backup-restore subsystems set and clear
\* the flags the gate reads, at any time.
SetInstalling ==
  /\ ~Returned
  /\ installing' = ~installing
  /\ UNCHANGED <<transferring, restoring, suspended, lockVars, callVars, probeVars>>
  /\ UNCHANGED <<deleteVars, origin, late, status, recalc>>

SetTransferring ==
  /\ ~Returned
  /\ transferring' = ~transferring
  /\ UNCHANGED <<installing, restoring, suspended, lockVars, callVars, probeVars>>
  /\ UNCHANGED <<deleteVars, origin, late, status, recalc>>

SetRestoring ==
  /\ ~Returned
  /\ restoring' = ~restoring
  /\ UNCHANGED <<installing, transferring, suspended, lockVars, callVars, probeVars>>
  /\ UNCHANGED <<deleteVars, origin, late, status, recalc>>

\* patchServer: s.UpdateDataStructure(body) installs the definition the Panel
\* sends, the suspended flag included; a body that fails to apply changes nothing.
PatchServer ==
  /\ ~Returned
  /\ \E panelSuspended \in BOOLEAN : suspended' = panelSuspended
  /\ UNCHANGED <<installing, transferring, restoring, lockVars, callVars, probeVars>>
  /\ UNCHANGED <<deleteVars, origin, late, status, recalc>>

\* ------------------------------------------------------- postServerPower
\* A handler that dispatches start and restart on a suspended server too.
PowerVerdictIgnoringSuspended(bound, a, isSuspended) ==
  IF ~bound THEN "BadRequest"
  ELSE IF ~IsValid(a) THEN "UnprocessableEntity"
  ELSE "Accepted"

\* What postServerPower answers to a request whose body binds or not, that
\* asks for action a, on a server whose suspended flag is isSuspended:
\*   if err := c.BindJSON(&data); err != nil { return }             (400)
\*   if !data.Action.IsValid() { c.AbortWithStatusJSON(422, ..); return }
\*   if (start || restart) && s.IsSuspended() { c.AbortWithStatusJSON(400, ..); return }
\*   go s.HandlePowerAction(data.Action, 30); c.Status(http.StatusAccepted)
PowerVerdict(bound, a, isSuspended) ==
  IF ~bound THEN "BadRequest"
  ELSE IF ~IsValid(a) THEN "UnprocessableEntity"
  ELSE IF (a = PowerActionStart \/ a = PowerActionRestart) /\ isSuspended
    THEN "BadRequest"
  ELSE "Accepted"

\* A power request for the server is handled up to its answer: it is rejected,
\* or goroutine c is started with s.HandlePowerAction(data.Action, 30).
PostServerPower(c) ==
  /\ ~Returned
  /\ registered
  /\ status # "dispatched"
  /\ \E bound \in BOOLEAN, a \in PowerActions :
       IF PowerVerdict(bound, a, suspended) = "Accepted"
         THEN /\ pc[c] = "idle"
              /\ action' = [action EXCEPT ![c] = a]
              /\ pc' = [pc EXCEPT ![c] = "chkInstalling"]
              /\ origin' = [origin EXCEPT ![c] = "power"]
              /\ late' = [late EXCEPT ![c] = teardown # << >>]
              /\ status' = "dispatched"
         ELSE /\ status' = PowerVerdict(bound, a, suspended)
              /\ UNCHANGED <<pc, action, origin, late>>
  /\ UNCHANGED <<serverVars, lockVars, probeVars, deleteVars, recalc,
                 waitSeconds, lk, acq, rel, expired, invoked, log, result>>

\* c.Status(http.StatusAccepted)
PowerRespond ==
  /\ ~Returned
  /\ status = "dispatched"
  /\ status' = "Accepted"
  /\ UNCHANGED <<serverVars, lockVars, callVars, probeVars, deleteVars,
                 origin, late, recalc>>

\* ----------------------------------------------------------- deleteServer
\* The deleteServer request is about to execute the line named label.
DeleteAt(label) == ~Returned /\ dpc = label

\* deleteServer issues the teardown step op, which returns ret.
Issue(op, ret) == teardown' = Append(teardown, Entry(op, ret))

\* A delete request for the server arrives: s := middleware.ExtractServer(c).
DeleteBegin ==
  /\ DeleteAt("idle")
  /\ registered
  /\ dpc' = "suspend"
  /\ UNCHANGED <<serverVars, lockVars, callVars, probeVars, origin, late, status, recalc,
                 teardown, pending, registered, removal, dres>>

\* s.Config().SetSuspended(true)
DeleteSuspend ==
  /\ DeleteAt("suspend")
  /\ suspended' = TRUE
  /\ Issue("SetSuspended", Nil)
  /\ dpc' = "ctxCancel"
  /\ UNCHANGED <<installing, transferring, restoring, lockVars, callVars, probeVars,
                 origin, late, status, recalc, pending, registered, removal, dres>>

\* s.CtxCancel()
DeleteCtxCancel ==
  /\ DeleteAt("ctxCancel")
  /\ Issue("CtxCancel", Nil)
  /\ dpc' = "events"
  /\ UNCHANGED <<serverVars, lockVars, callVars, probeVars, origin, late, status, recalc,
                 pending, registered, removal, dres>>

\* s.Events().Destroy()
DeleteEvents ==
  /\ DeleteAt("events")
  /\ Issue("Events.Destroy", Nil)
  /\ dpc' = "websockets"
  /\ UNCHANGED <<serverVars, lockVars, callVars, probeVars, origin, late, status, recalc,
                 pending, registered, removal, dres>>

\* A teardown that goes on to the downloads with the websockets still open.
DeleteWebsocketsDeferred ==
  /\ DeleteAt("websockets")
  /\ dpc' = "downloads"
  /\ UNCHANGED <<serverVars, lockVars, callVars, probeVars, origin, late, status, recalc,
                 teardown, pending, registered, removal, dres>>

\* s.Websockets().CancelAll()
DeleteWebsockets ==
  /\ DeleteAt("websockets")
  /\ Issue("Websockets.CancelAll", Nil)
  /\ dpc' = "downloads"
  /\ UNCHANGED <<serverVars, lockVars, callVars, probeVars, origin, late, status, recalc,
                 pending, registered, removal, dres>>

\* for _, dl := range downloader.ByServer(s.ID()): the pending downloads of the
\* server are listed.
DeleteListDownloads ==
  /\ DeleteAt("downloads")
  /\ \E n \in 0..MaxDownloads :
       /\ pending' = n
       /\ Issue("ByServer", <<n>>)
  /\ dpc' = "cancel"
  /\ UNCHANGED <<serverVars, lockVars, callVars, probeVars, origin, late, status, recalc,
                 registered, removal, dres>>

\* dl.Cancel() for the next download listed; the loop ends after the last one.
DeleteCancelDownload ==
  /\ DeleteAt("cancel")
  /\ IF pending > 0
       THEN /\ pending' = pending - 1
            /\ Issue("Download.Cancel", Nil)
            /\ UNCHANGED dpc
       ELSE /\ dpc' = "destroy"
            /\ UNCHANGED <<pending, teardown>>
  /\ UNCHANGED <<serverVars, lockVars, callVars, probeVars, origin, late, status, recalc,
                 registered, removal, dres>>

\* A deleteServer that only logs the error of Destroy and carries on.
DestroyFailureIgnored(err) == Nil

\* What a failed s.Environment.Destroy() makes deleteServer answer, or Nil to
\* go on: if err := s.Environment.Destroy(); err != nil { WithError(c, err); return }
DestroyFailure(err) == err

\* s.Environment.Destroy()
DeleteDestroy ==
  /\ DeleteAt("destroy")
  /\ \E err \in {Nil} \cup DestroyErrors :
       /\ Issue("Destroy", err)
       /\ IF DestroyFailure(err) # Nil
            THEN /\ dres' = [code |-> "error", err |-> DestroyFailure(err)]
                 /\ dpc' = "done"
            ELSE /\ dpc' = "spawn"
                 /\ UNCHANGED dres
  /\ UNCHANGED <<serverVars, lockVars, callVars, probeVars, origin, late, status, recalc,
                 pending, registered, removal>>

\* go func(p string) { os.RemoveAll(p) ... }(s.Filesystem().Path())
DeleteSpawnRemoval ==
  /\ DeleteAt("spawn")
  /\ removal' = "running"
  /\ Issue("go RemoveAll", Nil)
  /\ dpc' = "remove"
  /\ UNCHANGED <<serverVars, lockVars, callVars, probeVars, origin, late, status, recalc,
                 pending, registered, dres>>

\* A deregistration that waits for the removal of the files to end.
DeleteRemoveAfterRemoval ==
  /\ DeleteAt("remove")
  /\ removal # "running"
  /\ registered' = FALSE
  /\ Issue("Remove", Nil)
  /\ dpc' = "respond"
  /\ UNCHANGED <<serverVars, lockVars, callVars, probeVars, origin, late, status, recalc,
                 pending, removal, dres>>

\* middleware.ExtractManager(c).Remove(...)
DeleteRemove ==
  /\ DeleteAt("remove")
  /\ registered' = FALSE
  /\ Issue("Remove", Nil)
  /\ dpc' = "respond"
  /\ UNCHANGED <<serverVars, lockVars, callVars, probeVars, origin, late, status, recalc,
                 pending, removal, dres>>

\* c.Status(http.StatusNoContent)
DeleteRespond ==
  /\ DeleteAt("respond")
  /\ dres' = [code |-> "NoContent", err |-> Nil]
  /\ dpc' = "done"
  /\ UNCHANGED <<serverVars, lockVars, callVars, probeVars, origin, late, status, recalc,
                 teardown, pending, registered, removal>>

\* The detached os.RemoveAll(p) ends; its error is only logged.
RemoveAll ==
  /\ ~Returned
  /\ removal = "running"
  /\ \E outcome \in {"removed", "failed"} : removal' = outcome
  /\ UNCHANGED <<serverVars, lockVars, callVars, probeVars, origin, late, status, recalc,
                 dpc, teardown, pending, registered, dres>>

\* ---------------------------------------------------------- specification
\* Concurrent HandlePowerAction calls on one server.
Next ==
  \/ \E c \in Tasks : Begin(c)
  \/ \E c \in Tasks : CheckInstalling(c)
  \/ \E c \in Tasks : CheckTransferring(c)
  \/ \E c \in Tasks : CheckRestoring(c)
  \/ \E c \in Tasks : CheckLock(c)
  \/ \E c \in Tasks : NewLock(c)
  \/ \E c \in Tasks : ReadLock(c)
  \/ \E c \in Tasks : Acquire(c)
  \/ \E c \in Tasks : DeadlineElapses(c)
  \/ \E c \in Tasks : AcquireGranted(c)
  \/ \E c \in Tasks : AcquireTimeout(c)
  \/ \E c \in Tasks : TryAcquire(c)
  \/ \E c \in Tasks : DeferRelease(c)
  \/ \E c \in Tasks : Dispatch(c)
  \/ \E c \in Tasks : CheckState(c)
  \/ \E c \in Tasks : WaitForStop(c)
  \/ \E c \in Tasks : Terminate(c)
  \/ \E c \in Tasks : Sync(c)
  \/ \E c \in Tasks : PreBoot(c)
  \/ \E c \in Tasks : EnvironmentStart(c)
  \/ \E c \in Tasks : Release(c)
  \/ \E c \in Tasks : Finish(c)

Spec == Init /\ [][Next]_vars

\* The steps of the observed call.
Step(c) ==
  \/ CheckInstalling(c) \/ CheckTransferring(c) \/ CheckRestoring(c)
  \/ CheckLock(c) \/ NewLock(c) \/ ReadLock(c)
  \/ Acquire(c) \/ AcquireGranted(c) \/ AcquireTimeout(c)
  \/ TryAcquire(c) \/ DeferRelease(c) \/ Dispatch(c)
  \/ CheckState(c) \/ WaitForStop(c) \/ Terminate(c)
  \/ Sync(c) \/ PreBoot(c) \/ EnvironmentStart(c)
  \/ Release(c)

\* One HandlePowerAction call at a time, concurrent with ExecutingPowerAction
\* probes, with changes of the gate flags and with patchServer requests.
DispatchNext ==
  \/ Begin(Observed)
  \/ CheckInstalling(Observed)
  \/ CheckTransferring(Observed)
  \/ CheckRestoring(Observed)
  \/ CheckLock(Observed)
  \/ NewLock(Observed)
  \/ ReadLock(Observed)
  \/ Acquire(Observed)
  \/ DeadlineElapses(Observed)
  \/ AcquireGranted(Observed)
  \/ AcquireTimeout(Observed)
  \/ TryAcquire(Observed)
  \/ DeferRelease(Observed)
  \/ Dispatch(Observed)
  \/ CheckState(Observed)
  \/ WaitForStop(Observed)
  \/ Terminate(Observed)
  \/ Sync(Observed)
  \/ PreBoot(Observed)
  \/ EnvironmentStart(Observed)
  \/ Release(Observed)
  \/ Finish(Observed)
  \/ ProbeBegin
  \/ ProbeCheck
  \/ ProbeReadTry
  \/ ProbeTry
  \/ ProbeReadRelease
  \/ ProbeRelease
  \/ ProbeFinish
  \/ SetInstalling
  \/ SetTransferring
  \/ SetRestoring
  \/ PatchServer
  \/ RecalcFinish

DispatchSpec == Init /\ [][DispatchNext]_vars

\* Concurrent HandlePowerAction calls that stop or kill the server, concurrent
\* with ExecutingPowerAction probes.
ProbeNext ==
  \/ \E c \in Tasks : BeginStop(c)
  \/ \E c \in Tasks : CheckInstalling(c)
  \/ \E c \in Tasks : CheckTransferring(c)
  \/ \E c \in Tasks : CheckRestoring(c)
  \/ \E c \in Tasks : CheckLock(c)
  \/ \E c \in Tasks : NewLock(c)
  \/ \E c \in Tasks : ReadLock(c)
  \/ \E c \in Tasks : Acquire(c)
  \/ \E c \in Tasks : DeadlineElapses(c)
  \/ \E c \in Tasks : AcquireGranted(c)
  \/ \E c \in Tasks : AcquireTimeout(c)
  \/ \E c \in Tasks : TryAcquire(c)
  \/ \E c \in Tasks : DeferRelease(c)
  \/ \E c \in Tasks : Dispatch(c)
  \/ \E c \in Tasks : WaitForStop(c)
  \/ \E c \in Tasks : Terminate(c)
  \/ \E c \in Tasks : Release(c)
  \/ \E c \in Tasks : Finish(c)
  \/ ProbeBegin
  \/ ProbeCheck
  \/ ProbeReadTry
  \/ ProbeTry
  \/ ProbeReadRelease
  \/ ProbeRelease
  \/ ProbeFinish

ProbeSpec == Init /\ [][ProbeNext]_vars

\* The task that runs the calls the router makes.
RouterCaller == CHOOSE c \in Tasks : TRUE

\* The requests of the router for one server: power requests and direct
\* HandlePowerAction calls (one call at a time) beside one deleteServer
\* request and the removal task it starts.
RouterNext ==
  \/ Begin(RouterCaller)
  \/ PostServerPower(RouterCaller)
  \/ PowerRespond
  \/ CheckInstalling(RouterCaller)
  \/ CheckTransferring(RouterCaller)
  \/ CheckRestoring(RouterCaller)
  \/ CheckLock(RouterCaller)
  \/ NewLock(RouterCaller)
  \/ ReadLock(RouterCaller)
  \/ Acquire(RouterCaller)
  \/ TryAcquire(RouterCaller)
  \/ DeferRelease(RouterCaller)
  \/ Dispatch(RouterCaller)
  \/ CheckState(RouterCaller)
  \/ WaitForStop(RouterCaller)
  \/ Terminate(RouterCaller)
  \/ Sync(RouterCaller)
  \/ PreBoot(RouterCaller)
  \/ EnvironmentStart(RouterCaller)
  \/ Release(RouterCaller)
  \/ Finish(RouterCaller)
  \/ DeleteBegin
  \/ DeleteSuspend
  \/ DeleteCtxCancel
  \/ DeleteEvents
  \/ DeleteWebsockets
  \/ DeleteListDownloads
  \/ DeleteCancelDownload
  \/ DeleteDestroy
  \/ DeleteSpawnRemoval
  \/ DeleteRemove
  \/ DeleteRespond
  \/ RemoveAll

RouterSpec == Init /\ [][RouterNext]_vars

\* DispatchSpec with the scheduling the Go runtime gives: a runnable goroutine
\* runs, the timer of context.WithTimeout fires.  The steps of the call are
\* disabled while a returned probe is being finished, hence strong fairness.
WaitFairness ==
  /\ WF_vars(ProbeFinish)
  /\ SF_vars(Acquire(Observed))
  /\ SF_vars(DeadlineElapses(Observed))
  /\ SF_vars(AcquireTimeout(Observed))

WaitSpec == DispatchSpec /\ WaitFairness


\* ------------------------------------------------------------------ claims
\* Lines of HandlePowerAction after the lock step and before the return.
AfterLockStep == {"deferRelease", "dispatch", "state", "waitForStop", "terminate",
                  "sync", "preBoot", "start", "release"}

\* A call that is inside HandlePowerAction.
InProgress(c) == pc[c] \notin {"idle", "done"}

\* Call c acquired the lock and has not yet returned.
HoldsLock(c) == acq[c] # NoLock /\ pc[c] \in AfterLockStep

\* The exclusive (non-Terminate) calls between lock acquisition and return.
Exclusive == {c \in Callers : NeedsLock(action[c]) /\ HoldsLock(c)}

\* C1: at most one non-Terminate action is at any instant between its lock
\* acquisition and its return, for every interleaving of HandlePowerAction
\* calls, a fresh server (powerLock still nil) included.
C1_AtMostOneExclusive == Cardinality(Exclusive) <= 1

\* The backend-touching steps a kill call goes through after the gate.
KillLines == {"chkLock", "newLock", "readLock", "tryAcquire", "deferRelease",
              "dispatch", "terminate", "release"}

\* C2: a kill call that passed the three gates always reaches
\* Environment.Terminate: it is never on a line that waits for the lock, each
\* of its steps can be taken whatever the state of the lock (also while another
\* call holds it for good), and when it returns it has invoked Terminate and
\* returns Terminate's result or the fault of its deferred Release, never the
\* lock error.
C2_KillReachesTerminate ==
  \A c \in Callers :
    action[c] = PowerActionTerminate =>
      /\ pc[c] \notin {"acquire", "waiting"}
      /\ pc[c] \in KillLines /\ ~Returned => ENABLED Step(c)
      /\ pc[c] \in {"release", "done"} /\ lk[c] # NoLock =>
           /\ "Terminate" \in invoked[c]
           /\ ~ErrorsIs(result[c], DeadlineExceeded)

\* C2 witness: a kill call has returned from Terminate without the lock while
\* an exclusive call still holds it.
C2_KillPassedHolder ==
  \E c, d \in Callers :
    /\ action[c] = PowerActionTerminate /\ pc[c] = "done"
    /\ "Terminate" \in invoked[c] /\ acq[c] = NoLock
    /\ d \in Exclusive /\ acq[d] = lk[c]

\* No HandlePowerAction call is in progress.
Quiescent == \A c \in Callers : ~InProgress(c)

\* C3: every call that acquired the power lock releases it exactly once when it
\* returns, on every exit path; so whenever no call is in progress every
\* semaphore is free.
C3_ReleasedOnReturn ==
  /\ \A c \in Callers :
       pc[c] = "done" /\ acq[c] # NoLock =>
         rel[c] = acq[c] /\ result[c] # PanicReleased
  /\ Quiescent /\ ppc = "idle" => \A l \in Locks : cur[l] = 0

\* The call of c is a non-Terminate action.
NonTerminate(c) == action[c] # PowerActionTerminate

\* No wait bound, or a wait bound of zero.
NoWaitBound(ws) == ws = << >> \/ ws = <<0>>

\* C4: a non-Terminate call given no wait bound or a bound of zero is never
\* on a line that waits for the lock, and when its single TryAcquire finds the
\* lock held it returns the lock-timeout error, which wraps
\* context.DeadlineExceeded, having invoked neither onBeforeStart nor any
\* Environment method, having acquired and deferred nothing, and leaving every
\* semaphore as it was.
C4_NoWaitFailsAtOnce ==
  [][\A c \in Callers :
       /\ NonTerminate(c)' /\ NoWaitBound(waitSeconds'[c])
            => pc'[c] \notin {"acquire", "waiting"}
       /\ /\ pc[c] = "tryAcquire" /\ pc'[c] # "tryAcquire"
          /\ NonTerminate(c) /\ NoWaitBound(waitSeconds[c])
          /\ cur[lk[c]] > 0
          => /\ pc'[c] = "done"
             /\ result'[c] = ErrLockTimeout
             /\ ErrorsIs(result'[c], DeadlineExceeded)
             /\ invoked'[c] = {}
             /\ acq'[c] = NoLock /\ rel'[c] = NoLock
             /\ cur' = cur]_vars

\* C4 witness: a start given a wait bound of zero has returned the lock-timeout
\* error while a stop holds the lock.
C4_StartRefusedDuringStop ==
  \E c, d \in Callers :
    /\ action[c] = PowerActionStart /\ waitSeconds[c] = <<0>>
    /\ pc[c] = "done" /\ result[c] = ErrLockTimeout /\ invoked[c] = {}
    /\ action[d] = PowerActionStop /\ d \in Exclusive
    /\ acq[d] = lk[c] /\ cur[lk[c]] = 1

\* C5: a non-Terminate call given a positive wait bound that enters the timed
\* Acquire eventually leaves it, at the latest once its deadline has elapsed;
\* it leaves it either holding the lock it asked for or, its deadline elapsed,
\* returning the lock-timeout error that wraps the deadline-exceeded condition,
\* and then it has invoked neither onBeforeStart nor any Environment method,
\* has deferred no Release and has left every semaphore as it was.
C5_TimedAcquireEnds ==
  /\ (pc[Observed] \in {"acquire", "waiting"})
        ~> (pc[Observed] \in {"deferRelease", "done"})
  /\ [][/\ pc'[Observed] \in {"acquire", "waiting"}
            => /\ NonTerminate(Observed)'
               /\ Len(waitSeconds'[Observed]) > 0 /\ waitSeconds'[Observed][1] > 0
        /\ pc[Observed] \in {"acquire", "waiting"}
            => \/ pc'[Observed] = pc[Observed]
               \/ /\ pc[Observed] = "acquire" /\ pc'[Observed] = "waiting"
                  /\ cur[lk[Observed]] > 0 /\ cur' = cur
               \/ /\ pc'[Observed] = "deferRelease"
                  /\ cur[lk[Observed]] = 0 /\ cur' = SemTake(lk[Observed])
                  /\ acq'[Observed] = lk[Observed]
               \/ /\ pc[Observed] = "waiting" /\ expired[Observed]
                  /\ pc'[Observed] = "done"
                  /\ result'[Observed] = ErrLockTimeout
                  /\ ErrorsIs(result'[Observed], DeadlineExceeded)
                  /\ invoked'[Observed] = {}
                  /\ acq'[Observed] = NoLock /\ rel'[Observed] = NoLock
                  /\ cur' = cur]_vars

\* C5 witness: a start given the wait bound of the callers has timed out
\* while the lock was held, and returned the lock-timeout error.
C5_StartTimedOut ==
  /\ action[Observed] = PowerActionStart
  /\ waitSeconds[Observed] = <<LockWaitSeconds>>
  /\ pc[Observed] = "done" /\ expired[Observed]
  /\ result[Observed] = ErrLockTimeout /\ invoked[Observed] = {}
  /\ cur[lk[Observed]] = 1

\* The error a gate returns, by the line of the gate.
GateError(line) ==
  CASE line = "chkInstalling" -> ErrServerIsInstalling
    [] line = "chkTransferring" -> ErrServerIsTransferring
    [] line = "chkRestoring" -> ErrServerIsRestoring

\* The flag a gate reads, by the line of the gate.
GateFlag(line) ==
  CASE line = "chkInstalling" -> installing
    [] line = "chkTransferring" -> transferring
    [] line = "chkRestoring" -> restoring

\* The line after a gate that let the call through.
AfterGate(line) ==
  CASE line = "chkInstalling" -> "chkTransferring"
    [] line = "chkTransferring" -> "chkRestoring"
    [] line = "chkRestoring" -> "chkLock"

GateLines == {"chkInstalling", "chkTransferring", "chkRestoring"}

\* C6: for every action, kill included, a call reads the Installing, the
\* Transferring and the Restoring flag in that order; the first one found set
\* makes it return that gate's error at once, with s.powerLock and every
\* semaphore untouched (nothing created, acquired or released), no Release
\* deferred, and neither onBeforeStart nor any collaborator invoked; the lock
\* lines are reached only through the three gates.
C6_GatesReturnFirst ==
  [][/\ pc[Observed] \in GateLines /\ pc'[Observed] # pc[Observed]
        => IF GateFlag(pc[Observed])
             THEN /\ pc'[Observed] = "done"
                  /\ result'[Observed] = GateError(pc[Observed])
                  /\ invoked'[Observed] = {} /\ log' = << >>
                  /\ lk'[Observed] = NoLock /\ acq'[Observed] = NoLock
                  /\ rel'[Observed] = NoLock
                  /\ powerLock' = powerLock /\ created' = created /\ cur' = cur
             ELSE pc'[Observed] = AfterGate(pc[Observed])
     /\ pc[Observed] = "idle" /\ pc'[Observed] # "idle"
        => pc'[Observed] = "chkInstalling"
     /\ pc'[Observed] \in GateLines \cup {"idle"}
        => /\ invoked'[Observed] = {} /\ log' = << >>
           /\ lk'[Observed] = NoLock /\ acq'[Observed] = NoLock
           /\ rel'[Observed] = NoLock]_vars

\* C6 witness: a kill on a fresh server that is restoring (and neither
\* installing nor transferring) has returned ErrServerIsRestoring, and the
\* power lock has still not been created.
C6_KillRefusedWhileRestoring ==
  /\ action[Observed] = PowerActionTerminate /\ pc[Observed] = "done"
  /\ result[Observed] = ErrServerIsRestoring
  /\ ~installing /\ ~transferring /\ restoring
  /\ powerLock = NoLock /\ created = {}
  /\ invoked[Observed] = {}

\* The observed call has returned (its deferred Release may still be due).
ObservedReturned == pc[Observed] \in {"release", "done"}

\* C7: a start whose Environment.State() is not the offline state returns
\* ErrIsRunning having made no other call: no step of onBeforeStart (no Sync,
\* no disk check, no configuration update, no Chown) and no Environment.Start.
C7_StartWhileRunning ==
  /\ action[Observed] = PowerActionStart
  /\ Len(log) > 0
  /\ log[1].op = "State" /\ log[1].ret # <<ProcessOfflineState>>
  => /\ ObservedReturned
     /\ result[Observed] = ErrIsRunning
     /\ log = <<log[1]>>
     /\ invoked[Observed] = {"State"}

\* C7 witness: a start that took the lock has found the server starting, has
\* returned ErrIsRunning and has released the lock.
C7_StartRefusedWhileStarting ==
  /\ action[Observed] = PowerActionStart /\ pc[Observed] = "done"
  /\ result[Observed] = ErrIsRunning
  /\ log = <<Entry("State", <<"starting">>)>>
  /\ acq[Observed] # NoLock /\ cur[acq[Observed]] = 0

\* The places of the log where the collaborator op was called.
Calls(op) == {i \in 1..Len(log) : log[i].op = op}

\* C8: ErrSuspended is returned only by a start or restart whose one Sync has
\* succeeded before, the suspended flag being read right after it; a failed
\* Sync is the last call of the dispatch, which returns the sync error (never
\* ErrSuspended); and a call that finds the flag set after its Sync, whoever
\* set it, returns ErrSuspended.
C8_SuspendedAfterSync ==
  [][/\ result'[Observed] = ErrSuspended
        => /\ IsStart(action'[Observed])
           /\ Len(log') >= 2
           /\ log'[Len(log') - 1] = Entry("Sync", Nil)
           /\ log'[Len(log')] = Entry("IsSuspended", <<TRUE>>)
           /\ Cardinality(Calls("Sync")') = 1
     /\ \A i \in Calls("Sync")' :
          log'[i].ret # Nil
            => /\ i = Len(log')
               /\ ObservedReturned'
               /\ result'[Observed] =
                    WithMessage(log'[i].ret, "unable to sync server data from Panel instance")
               /\ result'[Observed] # ErrSuspended
     /\ \A i \in Calls("IsSuspended")' : i > 1 /\ log'[i - 1] = Entry("Sync", Nil)
     /\ pc[Observed] = "preBoot" /\ pc'[Observed] # "preBoot" /\ suspended
        => /\ ObservedReturned'
           /\ result'[Observed] = ErrSuspended]_vars

\* C8 witness: a restart whose stop-wait and Sync succeeded has returned
\* ErrSuspended.
C8_RestartRefusedSuspended ==
  /\ action[Observed] = PowerActionRestart /\ pc[Observed] = "done"
  /\ result[Observed] = ErrSuspended
  /\ log = <<Entry("WaitForStop", Nil), Entry("Sync", Nil),
             Entry("IsSuspended", <<TRUE>>)>>

\* C9: a restart whose Environment.WaitForStop returns an error returns that
\* error unmodified, having made no other call: neither onBeforeStart nor
\* Environment.Start is invoked in that dispatch.
C9_RestartStopsOnStopError ==
  /\ action[Observed] = PowerActionRestart
  /\ Len(log) > 0
  /\ log[1].op = "WaitForStop" /\ log[1].ret # Nil
  => /\ ObservedReturned
     /\ result[Observed] = log[1].ret
     /\ log = <<log[1]>>
     /\ invoked[Observed] = {"WaitForStop"}

\* C9 witness: a restart has returned the error of a forced kill that failed
\* after the stop-wait timed out.
C9_RestartFailedToStop ==
  /\ action[Observed] = PowerActionRestart /\ pc[Observed] = "done"
  /\ result[Observed] = <<"environment: forced kill failed">>
  /\ log = <<Entry("WaitForStop", <<"environment: forced kill failed">>)>>
  /\ acq[Observed] # NoLock

\* The log entry e is a fail-fast step of the pre-boot pipeline that failed.
FailedStep(e) ==
  \/ e.op = "Sync" /\ e.ret # Nil
  \/ e.op = "IsSuspended" /\ e.ret = <<TRUE>>
  \/ e.op = "HasSpaceErr" /\ e.ret # Nil
  \/ e.op = "Chown" /\ e.ret # Nil

\* The error the dispatch returns for the failed fail-fast step e.
StepError(e) ==
  CASE e.op = "Sync" ->
         WithMessage(e.ret, "unable to sync server data from Panel instance")
    [] e.op = "IsSuspended" -> ErrSuspended
    [] e.op = "HasSpaceErr" -> e.ret
    [] e.op = "Chown" ->
         WithMessage(e.ret, "failed to chown root server directory during pre-boot process")

\* The step the pipeline takes after the log entry e, when e did not fail.
NextStep(e) ==
  CASE e.op = "Sync" -> "IsSuspended"
    [] e.op = "IsSuspended" -> "SyncWithEnvironment"
    [] e.op = "SyncWithEnvironment" -> "DiskSpace"
    [] e.op = "DiskSpace" -> IF e.ret[1] > 0 THEN "HasSpaceErr" ELSE "HasSpaceAvailable"
    [] e.op = "HasSpaceAvailable" -> "UpdateConfigurationFiles"
    [] e.op = "HasSpaceErr" -> "UpdateConfigurationFiles"
    [] e.op = "UpdateConfigurationFiles" -> "CheckPermissionsOnBoot"
    [] e.op = "CheckPermissionsOnBoot" -> IF e.ret[1] THEN "Chown" ELSE "Start"
    [] e.op = "Chown" -> "Start"
    [] OTHER -> "Sync"

\* C10: in a start or restart that has returned after reaching the pre-boot
\* pipeline, Environment.Start was invoked if and only if no fail-fast step
\* failed (Sync, the suspended check after it, HasSpaceErr under a positive
\* disk limit, Chown under CheckPermissionsOnBoot), whatever
\* UpdateConfigurationFiles did; every step is followed by the next one of the
\* pipeline, a failed fail-fast step is the last call of the dispatch, and the
\* dispatch returns that step's error.
C10_StartIffPipelinePasses ==
  /\ IsStart(action[Observed]) /\ ObservedReturned
  /\ "onBeforeStart" \in invoked[Observed]
  => LET failed == {i \in 1..Len(log) : FailedStep(log[i])}
         first == CHOOSE i \in Calls("Sync") : TRUE
     IN  /\ Cardinality(Calls("Sync")) = 1
         /\ ("Start" \in invoked[Observed]) <=> (failed = {})
         /\ Calls("Start") # {} <=> "Start" \in invoked[Observed]
         /\ \A i \in first..(Len(log) - 1) :
              /\ ~FailedStep(log[i])
              /\ log[i + 1].op = NextStep(log[i])
         /\ failed # {}
              => /\ failed = {Len(log)}
                 /\ result[Observed] = StepError(log[Len(log)])
         /\ failed = {}
              => /\ log[Len(log)].op = "Start"
                 /\ result[Observed] = log[Len(log)].ret

\* C10 witness: a start under a positive disk limit, with CheckPermissionsOnBoot
\* set, has invoked Environment.Start although UpdateConfigurationFiles failed.
C10_StartedDespiteConfigFailure ==
  /\ action[Observed] = PowerActionStart /\ pc[Observed] = "done"
  /\ result[Observed] = Nil
  /\ log = <<Entry("State", <<ProcessOfflineState>>), Entry("Sync", Nil),
             Entry("IsSuspended", <<FALSE>>), Entry("SyncWithEnvironment", Nil),
             Entry("DiskSpace", <<1>>), Entry("HasSpaceErr", Nil),
             Entry("UpdateConfigurationFiles", <<"failed">>),
             Entry("CheckPermissionsOnBoot", <<TRUE>>), Entry("Chown", Nil),
             Entry("Start", Nil)>>

\* C11: under a disk limit <= 0 the pre-boot pipeline calls
\* HasSpaceAvailable(true) and never HasSpaceErr; the recalculation that call
\* kicks off is a task of its own: Environment.Start can be invoked whether or
\* not the recalculation has ended, and the recalculation can end whatever the
\* dispatch is doing.
C11_UnlimitedDiskDoesNotBlock ==
  /\ \A i \in Calls("DiskSpace") :
       log[i].ret[1] <= 0
         => /\ Calls("HasSpaceErr") = {}
            /\ i < Len(log) => log[i + 1].op = "HasSpaceAvailable"
  /\ pc[Observed] = "start" /\ ~Returned => ENABLED EnvironmentStart(Observed)
  /\ recalc = "running" /\ ~Returned => ENABLED RecalcFinish

\* C11 witness: a start under a disk limit of 0 has invoked Environment.Start
\* and returned while the recalculation of the disk usage is still running.
C11_StartedBeforeRecalculation ==
  /\ action[Observed] = PowerActionStart /\ pc[Observed] = "done"
  /\ result[Observed] = Nil /\ recalc = "running"
  /\ \E i \in Calls("DiskSpace") : log[i].ret = <<0>>
  /\ Calls("HasSpaceAvailable") # {} /\ Calls("Start") # {}

\* C12: ExecutingPowerAction returns false on a server on which no power lock
\* was ever created, and returns true when a non-Terminate HandlePowerAction
\* call has held the lock it acquired from before the probe began until the
\* probe returns.
C12_ProbeReportsHolder ==
  ppc = "done" =>
    /\ created = {} => ~pres
    /\ (\E c \in pseen : c \in Exclusive) => pres


\* The positions in the teardown of deleteServer at which it issued op.
Teardown(op) == {i \in 1..Len(teardown) : teardown[i].op = op}

\* C13: when s.Environment.Destroy() returns an error, deleteServer stops
\* there and answers with that very error: Destroy is the last step it
\* issued, the server is still in the manager's registry and the removal of
\* its files has not been started.
C13_DestroyErrorAborts ==
  \A i \in Teardown("Destroy") :
    teardown[i].ret # Nil
      => /\ i = Len(teardown)
         /\ dpc = "done"
         /\ dres = [code |-> "error", err |-> teardown[i].ret]
         /\ registered
         /\ removal = "none"

C13_DeleteAbortedOnDestroy ==
  /\ dpc = "done"
  /\ dres.code = "error"
  /\ dres.err \in DestroyErrors
  /\ Teardown("Destroy") # {}
  /\ registered
  /\ removal = "none"

\* C14: once Destroy has succeeded the server is taken out of the registry
\* before deleteServer responds, whatever the removal task is doing: Remove
\* is never held up by a removal that is still running, a removal that ends
\* (failed or not) touches neither the registry nor the request, and a
\* server taken out of the registry is never put back.
C14_RemovedBeforeResponse ==
  [][/\ dres'.code = "NoContent" => ~registered'
     /\ (dpc' = "done" /\ \E i \in Teardown("Destroy")' : teardown'[i].ret = Nil)
          => ~registered' /\ dres'.code = "NoContent"
     /\ (dpc = "remove" /\ ~Returned) => ENABLED DeleteRemove
     /\ removal' # removal /\ removal = "running"
          => UNCHANGED <<registered, dpc, dres, teardown>>
     /\ ~registered => ~registered']_vars

C14_RespondedAfterFailedRemoval ==
  /\ dpc = "done"
  /\ dres.code = "NoContent"
  /\ ~registered
  /\ removal = "failed"

\* C15: the teardown of deleteServer is ordered: SetSuspended is its first
\* step; CtxCancel, Events.Destroy, Websockets.CancelAll and the Cancel of
\* every download ByServer listed all come before Environment.Destroy; the
\* removal of the files and the deregistration come only after a Destroy
\* that succeeded.
C15_TeardownOrder ==
  /\ dpc \notin {"idle", "suspend"} => Teardown("SetSuspended") = {1}
  /\ \A i \in Teardown("Destroy") :
       /\ \A op \in {"CtxCancel", "Events.Destroy", "Websockets.CancelAll", "ByServer"} :
            \E j \in Teardown(op) : j < i
       /\ \A k \in Teardown("ByServer") :
            Cardinality({j \in Teardown("Download.Cancel") : k < j /\ j < i})
              = teardown[k].ret[1]
  /\ \A i \in Teardown("go RemoveAll") \cup Teardown("Remove") :
       \E j \in Teardown("Destroy") : j < i /\ teardown[j].ret = Nil
  /\ removal # "none" => Teardown("go RemoveAll") # {}
  /\ ~registered => Teardown("Remove") # {}

C15_FullTeardown ==
  /\ dpc = "done"
  /\ dres.code = "NoContent"
  /\ Cardinality(Teardown("Download.Cancel")) = MaxDownloads
  /\ Teardown("Remove") # {}


\* C16: once deleteServer has set Suspended, a start or restart that begins
\* afterwards never reaches Environment.Start, whatever its Sync returns and
\* wherever the teardown is.
C16_NoStartAfterDeleteSuspends ==
  \A c \in Callers :
    late[c] /\ IsStart(action[c]) => "Start" \notin invoked[c]


\* C17: postServerPower starts a HandlePowerAction call only for a valid
\* action that is not a start or restart on a suspended server, and gives
\* it the 30 second bound; a request it rejects (422, 400) starts no call
\* and leaves the calls, the lock and the server as they were; an accepted
\* request can be answered 202 at once, wherever the call it started is,
\* and answering it changes nothing of the call.
C17_PowerRequestGate ==
  [][/\ \A c \in Callers :
          (pc[c] = "idle" /\ pc'[c] # "idle" /\ origin'[c] = "power")
            => /\ IsValid(action'[c])
               /\ ~(IsStart(action'[c]) /\ suspended)
               /\ status' = "dispatched"
               /\ UNCHANGED <<serverVars, lockVars, invoked>>
     /\ (status' # status /\ status' \in {"UnprocessableEntity", "BadRequest"})
          => UNCHANGED <<serverVars, lockVars, callVars>>
     /\ (status = "dispatched" /\ ~Returned) => ENABLED PowerRespond
     /\ (status = "dispatched" /\ status' = "Accepted")
          => UNCHANGED <<serverVars, lockVars, callVars>>
     /\ \A c \in Callers :
          (pc[c] = "readLock" /\ pc'[c] # "readLock" /\ origin[c] = "power")
            => waitSeconds'[c] = <<LockWaitSeconds>>]_vars

C17_AnsweredBeforeOutcome ==
  /\ status = "Accepted"
  /\ origin[RouterCaller] = "power"
  /\ pc[RouterCaller] = "chkInstalling"
  /\ IsStart(action[RouterCaller])
  /\ invoked[RouterCaller] = {}


\* C18: the powerLock of the server is created at most once and never
\* replaced: every call that has read the lock, acquired it or deferred its
\* release works on the one instance the server holds.
C18_LockCreatedOnce ==
  /\ Cardinality(created) <= 1
  /\ \A c \in Callers :
       InProgress(c)
         => /\ lk[c] \in {NoLock, powerLock}
            /\ acq[c] \in {NoLock, powerLock}
            /\ rel[c] \in {NoLock, powerLock}


\* The errors of the three gates.
GateErrors == {GateError(line) : line \in GateLines}

\* Call c has passed the three gates and has not returned yet.
PastGates(c) == InProgress(c) /\ pc[c] \notin GateLines

\* C19: the Installing, Transferring and Restoring gates are read once, at
\* the entry of HandlePowerAction: a call past the gates never goes back to
\* one and never returns a gate error, a gate error comes with no lock read
\* or acquired and nothing invoked, a change of a flag leaves the call and
\* the lock as they are, and whatever the flags have become the call past
\* the gates has a step to take (while it waits for the lock: the grant or
\* the deadline).
C19_GatesReadOnlyAtEntry ==
  [][/\ PastGates(Observed)
          => /\ pc'[Observed] \notin GateLines
             /\ result'[Observed] \notin GateErrors
     /\ result'[Observed] \in GateErrors
          => /\ pc[Observed] \in GateLines \cup {"done"}
             /\ lk'[Observed] = NoLock /\ acq'[Observed] = NoLock
             /\ invoked'[Observed] = {}
     /\ <<installing, transferring, restoring>>' # <<installing, transferring, restoring>>
          => UNCHANGED <<callVars, lockVars>>
     /\ (PastGates(Observed) /\ ~Returned)
          => ENABLED (Step(Observed) \/ DeadlineElapses(Observed))]_vars

C19_StartedWhileFlagsSet ==
  /\ action[Observed] = PowerActionStart /\ pc[Observed] = "done"
  /\ result[Observed] = Nil
  /\ "Start" \in invoked[Observed]
  /\ acq[Observed] # NoLock
  /\ installing /\ transferring /\ restoring


\* C20: a kill call that did not acquire the power lock never releases it
\* (it defers no Release, so the holder keeps the lock), and a kill call
\* releases no lock but the one it acquired; while a kill call holds the
\* lock, from its TryAcquire to its return, no non-Terminate action is
\* between its own acquisition and its return.
C20_KillLeavesLockToHolder ==
  \A c \in Callers :
    (action[c] = PowerActionTerminate /\ pc[c] \in AfterLockStep \cup {"done"})
      => /\ acq[c] = NoLock => rel[c] = NoLock
         /\ rel[c] \in {NoLock, acq[c]}
         /\ HoldsLock(c) => Exclusive = {}


\* C21: whenever a power lock is held, its holder is a HandlePowerAction
\* call between its acquisition and its return; so a call given no wait
\* bound returns the lock-timeout error only when another call holds the
\* lock it tried, and ExecutingPowerAction returns true only when a call
\* holds the lock it tried.
C21_HolderIsACall ==
  /\ [](\A l \in created :
          cur[l] > 0 => \E c \in Callers : HoldsLock(c) /\ acq[c] = l)
  /\ [][/\ \A c \in Callers :
             (/\ pc[c] = "tryAcquire" /\ pc'[c] = "done"
              /\ NoWaitBound(waitSeconds[c])
              /\ ErrorsIs(result'[c], DeadlineExceeded))
               => \E d \in Callers \ {c} : HoldsLock(d) /\ acq[d] = lk[c]
        /\ (ppc = "try" /\ ppc' # "try" /\ pres')
               => \E d \in Callers : HoldsLock(d) /\ acq[d] = plk]_vars

====
